---- MODULE Spec2Model ----
(***************************************************************************)
(* django-i18nfield: LazyI18nString (strings.py), I18nField.get_prep_value *)
(* (fields.py) and the I18nWidget / I18nFormField glue (forms.py).         *)
(*                                                                         *)
(* Text is a sequence of one-character strings, so that split, startswith, *)
(* strip, JSON encoding and JSON decoding are computed character by        *)
(* character.  A Python value is a pair <<tag, payload>>:                  *)
(*   <<"str", chars>>   <<"num", chars of the literal>>   <<"float", chars>>*)
(*   <<"true", <<>>>>   <<"false", <<>>>>   <<"null", <<>>>>               *)
(*   <<"list", sequence of values>>                                        *)
(*   <<"dict", sequence of <<key value, value>> in insertion order>>       *)
(*   <<"proxy", message>>   (LazyI18nString.LazyGettextProxy)              *)
(* The result of an operation is <<"ok", value>> or <<"raise", <<E, <<>>>>>>*)
(***************************************************************************)
EXTENDS Integers, Sequences, FiniteSets, TLC

(* ------------------------------------------------------------------ *)
(* Bounds of the model                                                  *)
(* ------------------------------------------------------------------ *)
\* longest mapping the constructor is given
MaxKeys == 2
\* most map() calls on one instance
MaxMaps == 2

(* ------------------------------------------------------------------ *)
(* Characters and text                                                  *)
(* ------------------------------------------------------------------ *)
\* The characters of the model in code point order; "BS" is U+0008 and
\* "U+00E9", "U+????" are code points above U+007F.
Alphabet ==
  << "BS", "\t", "\n", "\f", "\r", " ", "!", "\"", ",", "-", "/",
     "0", "1", "2", "3", "4", "5", "6", "7", "8", "9", ":",
     "A", "B", "C", "D", "E", "F", "H", "I", "N", "T",
     "[", "\\", "]", "_",
     "a", "b", "c", "d", "e", "f", "h", "i", "l", "n", "o", "r", "s", "t",
     "u", "v", "x", "y",
     "{", "}", "U+00E9", "U+????" >>

Ord(c) == CHOOSE i \in 1..Len(Alphabet) : Alphabet[i] = c

Digits == {"0", "1", "2", "3", "4", "5", "6", "7", "8", "9"}
HexDigits == Digits \cup {"a", "b", "c", "d", "e", "f", "A", "B", "C", "D", "E", "F"}
ControlChars == {"BS", "\t", "\n", "\f", "\r"}
JsonWs == {" ", "\t", "\n", "\r"}
PyWs == {" ", "\t", "\n", "\f", "\r"}

Min(a, b) == IF a < b THEN a ELSE b

\* Python's str < str: code point by code point, a proper prefix is smaller
StrLess(a, b) ==
  \E i \in 1..(Min(Len(a), Len(b)) + 1) :
     /\ \A j \in 1..(i - 1) : a[j] = b[j]
     /\ \/ i = Len(a) + 1 /\ i <= Len(b)
        \/ i <= Len(a) /\ i <= Len(b) /\ Ord(a[i]) < Ord(b[i])

\* str.startswith
startswith(s, p) == Len(p) <= Len(s) /\ SubSeq(s, 1, Len(p)) = p

\* whether literal lit sits in s at position i
LitAt(s, i, lit) == i + Len(lit) - 1 <= Len(s) /\ SubSeq(s, i, i + Len(lit) - 1) = lit

\* lng.split('-')[0]
RECURSIVE FirstPart(_)
FirstPart(s) ==
  IF s = <<>> \/ Head(s) = "-" THEN <<>> ELSE <<Head(s)>> \o FirstPart(Tail(s))

\* str.strip()
RECURSIVE LStrip(_)
LStrip(s) == IF s # <<>> /\ Head(s) \in PyWs THEN LStrip(Tail(s)) ELSE s
RECURSIVE RStrip(_)
RStrip(s) ==
  IF s # <<>> /\ s[Len(s)] \in PyWs THEN RStrip(SubSeq(s, 1, Len(s) - 1)) ELSE s
Strip(s) == RStrip(LStrip(s))

(* ------------------------------------------------------------------ *)
(* Python values                                                        *)
(* ------------------------------------------------------------------ *)
PyStr(s) == <<"str", s>>
PyNone == <<"null", <<>>>>
PyTrue == <<"true", <<>>>>
PyFalse == <<"false", <<>>>>
PyBool(b) == IF b THEN PyTrue ELSE PyFalse
PyDict(items) == <<"dict", items>>
PyList(items) == <<"list", items>>
Proxy(msg) == <<"proxy", msg>>

Ok(v) == <<"ok", v>>
Raise(e) == <<"raise", <<e, <<>>>>>>
IsOk(r) == r[1] = "ok"
Raised(r, e) == r[1] = "raise" /\ r[2][1] = e

\* the mantissa of a number literal: the characters before an exponent
RECURSIVE Mantissa(_)
Mantissa(s) ==
  IF s = <<>> \/ Head(s) \in {"e", "E"} THEN <<>> ELSE <<Head(s)>> \o Mantissa(Tail(s))

\* bool(v)
Truthy(v) ==
  CASE v[1] = "str" -> v[2] # <<>>
    [] v[1] = "num" -> \E i \in 1..Len(Mantissa(v[2])) : Mantissa(v[2])[i] \in Digits \ {"0"}
    [] v[1] = "float" -> TRUE
    [] v[1] = "true" -> TRUE
    [] v[1] = "false" -> FALSE
    [] v[1] = "null" -> FALSE
    [] v[1] = "list" -> v[2] # <<>>
    [] v[1] = "dict" -> v[2] # <<>>
    [] OTHER -> TRUE

\* dict operations on the sequence of items
Keys(items) == [i \in 1..Len(items) |-> items[i][1]]
Values(items) == [i \in 1..Len(items) |-> items[i][2]]
HasKey(items, k) == \E i \in 1..Len(items) : items[i][1] = k
\* dict.get(k): None when absent
Get(items, k) ==
  IF HasKey(items, k)
  THEN items[CHOOSE i \in 1..Len(items) : items[i][1] = k][2]
  ELSE PyNone
\* d[k] = v: an existing key keeps its position
SetItem(items, k, v) ==
  IF HasKey(items, k)
  THEN [i \in 1..Len(items) |-> IF items[i][1] = k THEN <<k, v>> ELSE items[i]]
  ELSE Append(items, <<k, v>>)

(* ------------------------------------------------------------------ *)
(* json.loads                                                           *)
(* ------------------------------------------------------------------ *)
\* A parse step yields <<ok, value, position after it>>.
Fail == <<FALSE, PyNone, 0>>

RECURSIVE SkipWs(_, _)
SkipWs(s, i) == IF i <= Len(s) /\ s[i] \in JsonWs THEN SkipWs(s, i + 1) ELSE i

\* the character a \uXXXX escape names
Hex4Char(h) ==
  CASE h \in {<<"0", "0", "e", "9">>, <<"0", "0", "E", "9">>} -> "U+00E9"
    [] h = <<"0", "0", "4", "1">> -> "A"
    [] h = <<"0", "0", "2", "2">> -> "\""
    [] OTHER -> "U+????"

\* the character a two-character escape \c names
EscapeChar(c) ==
  CASE c = "\"" -> "\""
    [] c = "\\" -> "\\"
    [] c = "/" -> "/"
    [] c = "b" -> "BS"
    [] c = "f" -> "\f"
    [] c = "n" -> "\n"
    [] c = "r" -> "\r"
    [] c = "t" -> "\t"

\* py_scanstring, strict: from position i inside a string literal
RECURSIVE ScanString(_, _, _)
ScanString(s, i, acc) ==
  IF i > Len(s) THEN Fail
  ELSE IF s[i] = "\"" THEN <<TRUE, PyStr(acc), i + 1>>
  ELSE IF s[i] \in ControlChars THEN Fail
  ELSE IF s[i] # "\\" THEN ScanString(s, i + 1, Append(acc, s[i]))
  ELSE IF i + 1 > Len(s) THEN Fail
  ELSE IF s[i + 1] = "u"
       THEN IF i + 5 <= Len(s) /\ \A j \in (i + 2)..(i + 5) : s[j] \in HexDigits
            THEN ScanString(s, i + 6, Append(acc, Hex4Char(SubSeq(s, i + 2, i + 5))))
            ELSE Fail
  ELSE IF s[i + 1] \in {"\"", "\\", "/", "b", "f", "n", "r", "t"}
       THEN ScanString(s, i + 2, Append(acc, EscapeChar(s[i + 1])))
  ELSE Fail

RECURSIVE SkipDigits(_, _)
SkipDigits(s, i) == IF i <= Len(s) /\ s[i] \in Digits THEN SkipDigits(s, i + 1) ELSE i

\* NUMBER_RE: (-?(?:0|[1-9]\d*))(\.\d+)?([eE][-+]?\d+)?  (no "." and no "+"
\* in the alphabet); the longest match from position i
ScanNumber(s, i) ==
  LET a == IF i <= Len(s) /\ s[i] = "-" THEN i + 1 ELSE i
      b == IF a <= Len(s) /\ s[a] = "0" THEN a + 1
           ELSE IF a <= Len(s) /\ s[a] \in Digits THEN SkipDigits(s, a)
           ELSE 0
      c == IF b # 0 /\ b <= Len(s) /\ s[b] \in {"e", "E"}
           THEN IF b + 1 <= Len(s) /\ s[b + 1] = "-" THEN b + 2 ELSE b + 1
           ELSE 0
      d == IF c # 0 /\ c <= Len(s) /\ s[c] \in Digits THEN SkipDigits(s, c) ELSE 0
  IN IF b = 0 THEN Fail
     ELSE IF d # 0 THEN <<TRUE, <<"float", SubSeq(s, i, d - 1)>>, d>>
     ELSE <<TRUE, <<"num", SubSeq(s, i, b - 1)>>, b>>

Lit_null == <<"n", "u", "l", "l">>
Lit_true == <<"t", "r", "u", "e">>
Lit_false == <<"f", "a", "l", "s", "e">>
Lit_NaN == <<"N", "a", "N">>
Lit_Infinity == <<"I", "n", "f", "i", "n", "i", "t", "y">>

RECURSIVE ScanValue(_, _)
RECURSIVE ScanArray(_, _, _)
RECURSIVE ScanObject(_, _, _)
RECURSIVE ScanMember(_, _, _)
RECURSIVE ScanMemberEnd(_, _, _, _)
RECURSIVE ScanElementEnd(_, _, _)

\* scanner.py_make_scanner._scan_once
ScanValue(s, i) ==
  LET number == ScanNumber(s, i)
  IN
  IF i > Len(s) THEN Fail
  ELSE IF s[i] = "\"" THEN ScanString(s, i + 1, <<>>)
  ELSE IF s[i] = "{"
       THEN LET j == SkipWs(s, i + 1)
            IN IF j <= Len(s) /\ s[j] = "}" THEN <<TRUE, PyDict(<<>>), j + 1>>
               ELSE ScanObject(s, j, <<>>)
  ELSE IF s[i] = "["
       THEN LET j == SkipWs(s, i + 1)
            IN IF j <= Len(s) /\ s[j] = "]" THEN <<TRUE, PyList(<<>>), j + 1>>
               ELSE ScanArray(s, j, <<>>)
  ELSE IF LitAt(s, i, Lit_null) THEN <<TRUE, PyNone, i + 4>>
  ELSE IF LitAt(s, i, Lit_true) THEN <<TRUE, PyTrue, i + 4>>
  ELSE IF LitAt(s, i, Lit_false) THEN <<TRUE, PyFalse, i + 5>>
  ELSE IF number[1] THEN number
  ELSE IF LitAt(s, i, Lit_NaN) THEN <<TRUE, <<"float", Lit_NaN>>, i + 3>>
  ELSE IF LitAt(s, i, Lit_Infinity) THEN <<TRUE, <<"float", Lit_Infinity>>, i + 8>>
  ELSE IF LitAt(s, i, <<"-">> \o Lit_Infinity)
       THEN <<TRUE, <<"float", <<"-">> \o Lit_Infinity>>, i + 9>>
  ELSE Fail

\* decoder.JSONArray: an element is expected at position i
ScanArray(s, i, acc) == ScanElementEnd(s, acc, ScanValue(s, i))

\* the element v has been read: "]" or "," follows
ScanElementEnd(s, acc, v) ==
  IF ~v[1] \/ SkipWs(s, v[3]) > Len(s) THEN Fail
  ELSE IF s[SkipWs(s, v[3])] = "]" THEN <<TRUE, PyList(Append(acc, v[2])), SkipWs(s, v[3]) + 1>>
  ELSE IF s[SkipWs(s, v[3])] = ","
       THEN ScanArray(s, SkipWs(s, SkipWs(s, v[3]) + 1), Append(acc, v[2]))
  ELSE Fail

\* decoder.JSONObject: a key is expected at position i; a repeated key keeps
\* its first position and takes the last value (dict(pairs))
ScanObject(s, i, acc) ==
  IF i > Len(s) \/ s[i] # "\"" THEN Fail
  ELSE ScanMember(s, acc, ScanString(s, i + 1, <<>>))

\* the key k has been read: ":" and the value follow
ScanMember(s, acc, k) ==
  IF ~k[1] \/ SkipWs(s, k[3]) > Len(s) \/ s[SkipWs(s, k[3])] # ":" THEN Fail
  ELSE ScanMemberEnd(s, acc, k[2], ScanValue(s, SkipWs(s, SkipWs(s, k[3]) + 1)))

\* the member k: v has been read: "}" or "," follows
ScanMemberEnd(s, acc, k, v) ==
  IF ~v[1] \/ SkipWs(s, v[3]) > Len(s) THEN Fail
  ELSE IF s[SkipWs(s, v[3])] = "}" THEN <<TRUE, PyDict(SetItem(acc, k, v[2])), SkipWs(s, v[3]) + 1>>
  ELSE IF s[SkipWs(s, v[3])] = ","
       THEN ScanObject(s, SkipWs(s, SkipWs(s, v[3]) + 1), SetItem(acc, k, v[2]))
  ELSE Fail

\* json.loads(s): Ok(value), or ValueError (JSONDecodeError)
\* (v is what the scanner found at the first non-blank character: anything
\* but blanks after it is "Extra data")
LoadsEnd(s, v) ==
  IF v[1] /\ SkipWs(s, v[3]) = Len(s) + 1 THEN Ok(v[2]) ELSE Raise("ValueError")

json_loads(s) == LoadsEnd(s, ScanValue(s, SkipWs(s, 1)))

(* ------------------------------------------------------------------ *)
(* json.dumps(..., sort_keys=True)                                      *)
(* ------------------------------------------------------------------ *)
\* the four hex digits of a code point above U+007F
Hex4Of(c) == IF c = "U+00E9" THEN <<"0", "0", "e", "9">> ELSE <<"f", "f", "f", "d">>

\* encoder.py_encode_basestring_ascii, one character
EncodeChar(c) ==
  CASE c = "\"" -> <<"\\", "\"">>
    [] c = "\\" -> <<"\\", "\\">>
    [] c = "BS" -> <<"\\", "b">>
    [] c = "\f" -> <<"\\", "f">>
    [] c = "\n" -> <<"\\", "n">>
    [] c = "\r" -> <<"\\", "r">>
    [] c = "\t" -> <<"\\", "t">>
    [] c \in {"U+00E9", "U+????"} -> <<"\\", "u">> \o Hex4Of(c)
    [] OTHER -> <<c>>

RECURSIVE EncodeChars(_)
EncodeChars(s) == IF s = <<>> THEN <<>> ELSE EncodeChar(Head(s)) \o EncodeChars(Tail(s))

EncodeString(s) == <<"\"">> \o EncodeChars(s) \o <<"\"">>

\* sorted(dct.items()): items in increasing key order (keys are distinct
\* strings)
RECURSIVE SortItems(_)
SortItems(items) ==
  IF items = <<>> THEN <<>>
  ELSE LET m == CHOOSE i \in 1..Len(items) :
                  \A j \in 1..Len(items) : j = i \/ StrLess(items[i][1][2], items[j][1][2])
           rest == [j \in 1..(Len(items) - 1) |-> IF j < m THEN items[j] ELSE items[j + 1]]
       IN <<items[m]>> \o SortItems(rest)

RECURSIVE EncodeValue(_)
RECURSIVE EncodeItems(_, _)
RECURSIVE EncodeElems(_, _)

\* the members of an object or array, joined by the default separators
EncodeItems(items, first) ==
  IF items = <<>> THEN <<>>
  ELSE (IF first THEN <<>> ELSE <<",", " ">>)
       \o EncodeString(items[1][1][2]) \o <<":", " ">> \o EncodeValue(items[1][2])
       \o EncodeItems(Tail(items), FALSE)

EncodeElems(elems, first) ==
  IF elems = <<>> THEN <<>>
  ELSE (IF first THEN <<>> ELSE <<",", " ">>)
       \o EncodeValue(Head(elems)) \o EncodeElems(Tail(elems), FALSE)

EncodeValue(v) ==
  CASE v[1] = "str" -> EncodeString(v[2])
    [] v[1] = "null" -> Lit_null
    [] v[1] = "true" -> Lit_true
    [] v[1] = "false" -> Lit_false
    [] v[1] \in {"num", "float"} -> v[2]
    [] v[1] = "list" -> <<"[">> \o EncodeElems(v[2], TRUE) \o <<"]">>
    [] v[1] = "dict" -> <<"{">> \o EncodeItems(SortItems(v[2]), TRUE) \o <<"}">>

\* json.dumps(d, sort_keys=True) of a dict.  Keys that are not str reach it
\* only from an array-of-pairs input and make sorted() or the encoder raise
\* TypeError whenever their types are mixed; the model raises for all of them.
json_dumps(items) ==
  IF \A i \in 1..Len(items) : items[i][1][1] = "str"
  THEN Ok(PyStr(EncodeValue(PyDict(items))))
  ELSE Raise("TypeError")

(* ------------------------------------------------------------------ *)
(* strings.py: LazyI18nString                                           *)
(* ------------------------------------------------------------------ *)
NAIVE == <<"_", "n", "a", "i", "v", "e">>

\* "key, value = e" for an element e of an iterable given to dict.update
Unpack2(e) ==
  CASE e[1] = "list" /\ Len(e[2]) = 2 -> Ok(<<e[2][1], e[2][2]>>)
    [] e[1] = "str" /\ Len(e[2]) = 2 -> Ok(<<PyStr(<<e[2][1]>>), PyStr(<<e[2][2]>>)>>)
    [] e[1] = "dict" /\ Len(e[2]) = 2 -> Ok(<<e[2][1][1], e[2][2][1]>>)
    [] e[1] \in {"list", "str", "dict"} -> Raise("ValueError")
    [] OTHER -> Raise("TypeError")

\* "for key, value in other: self[key] = value" (MutableMapping.update)
RECURSIVE UpdateFromPairs(_, _)
UpdateFromPairs(acc, elems) ==
  IF elems = <<>> THEN Ok(acc)
  ELSE LET kv == Unpack2(Head(elems))
       IN IF ~IsOk(kv) THEN kv
          ELSE IF kv[2][1][1] \in {"list", "dict"} THEN Raise("TypeError")
          ELSE UpdateFromPairs(SetItem(acc, kv[2][1], kv[2][2]), Tail(elems))

\* UserDict.__init__(dict_data): the items of self.data, or the exception
UserDictInit(v) ==
  CASE v[1] = "null" -> Ok(<<>>)
    [] v[1] = "dict" -> Ok(v[2])
    [] v[1] = "list" -> UpdateFromPairs(<<>>, v[2])
    [] v[1] = "str" -> UpdateFromPairs(<<>>, [i \in 1..Len(v[2]) |-> PyStr(<<v[2][i]>>)])
    [] OTHER -> Raise("TypeError")

\* the except branch keeping nothing of the string
DictData_drop(arg, parsed) == IF IsOk(parsed) THEN parsed[2] ELSE PyDict(<<>>)

\* "try: dict_data = json.loads(data) / except ValueError: dict_data =
\* {"_naive": data}", parsed being what json.loads(data) did
DictData(arg, parsed) ==
  IF IsOk(parsed) THEN parsed[2] ELSE PyDict(<< <<PyStr(NAIVE), arg>> >>)

\* self.data once UserDict.__init__ has ended with r
SelfData(r) == IF IsOk(r) THEN Ok(PyDict(r[2])) ELSE r

\* LazyI18nString.__init__(data): Ok(self.data) or the exception raised
LazyI18nString(arg) ==
  SelfData(UserDictInit(IF arg[1] = "str" THEN DictData(arg, json_loads(arg[2])) ELSE arg))

\* __bool__ as the truth value of self.data alone
Bool_of_data(d) == Truthy(d)

\* LazyI18nString.__bool__
Bool(d) ==
  IF ~Truthy(d) THEN FALSE
  ELSE IF d[1] = "dict" THEN \E i \in 1..Len(d[2]) : Truthy(d[2][i][2])
  ELSE TRUE

\* the list "similar" of localize
Similar(items, lng) ==
  LET firstpart == FirstPart(lng)
  IN SelectSeq(Keys(items),
       LAMBDA loc : /\ \/ loc # PyStr(NAIVE) /\ startswith(loc[2], firstpart \o <<"-">>)
                       \/ PyStr(firstpart) = loc
                    /\ loc # PyStr(lng))

\* the first truthy element of a sequence of values (there is one)
FirstTruthy(vals) == vals[CHOOSE i \in 1..Len(vals) :
                            Truthy(vals[i]) /\ \A j \in 1..(i - 1) : ~Truthy(vals[j])]

\* localize taking the first region sibling whether or not it is filled
localize_first_sibling(d, lng, lc) ==
  IF ~Truthy(d) THEN Ok(PyStr(<<>>))
  ELSE IF d[1] # "dict" THEN Raise("AttributeError")
  ELSE IF \E i \in 1..Len(d[2]) : d[2][i][1][1] # "str" THEN Raise("AttributeError")
  ELSE
  LET items == d[2]
      firstpart == FirstPart(lng)
      similar == Similar(items, lng)
  IN IF Truthy(Get(items, PyStr(lng))) THEN Ok(Get(items, PyStr(lng)))
     ELSE IF Truthy(Get(items, PyStr(firstpart))) THEN Ok(Get(items, PyStr(firstpart)))
     ELSE IF similar # <<>> THEN Ok(Get(items, similar[1]))
     ELSE IF Truthy(Get(items, PyStr(lc))) THEN Ok(Get(items, PyStr(lc)))
     ELSE IF \E i \in 1..Len(items) : Truthy(items[i][2])
          THEN Ok(FirstTruthy(Values(items)))
     ELSE Ok(PyStr(<<>>))

\* LazyI18nString.localize(lng), lc being settings.LANGUAGE_CODE
localize(d, lng, lc) ==
  IF ~Truthy(d) THEN Ok(PyStr(<<>>))
  ELSE IF d[1] # "dict" THEN Raise("AttributeError")
  ELSE IF \E i \in 1..Len(d[2]) : d[2][i][1][1] # "str" THEN Raise("AttributeError")
  ELSE
  LET items == d[2]
      firstpart == FirstPart(lng)
      similar == Similar(items, lng)
      simvals == [i \in 1..Len(similar) |-> Get(items, similar[i])]
  IN IF Truthy(Get(items, PyStr(lng))) THEN Ok(Get(items, PyStr(lng)))
     ELSE IF Truthy(Get(items, PyStr(firstpart))) THEN Ok(Get(items, PyStr(firstpart)))
     ELSE IF similar # <<>> /\ \E i \in 1..Len(simvals) : Truthy(simvals[i])
          THEN Ok(FirstTruthy(simvals))
     ELSE IF Truthy(Get(items, PyStr(lc))) THEN Ok(Get(items, PyStr(lc)))
     ELSE IF \E i \in 1..Len(items) : Truthy(items[i][2])
          THEN Ok(FirstTruthy(Values(items)))
     ELSE Ok(PyStr(<<>>))

\* LazyI18nString.__str__ under the active language act (None when
\* translations are deactivated); str() accepts only a str result
Str(d, act, lc) ==
  LET r == localize(d, IF Truthy(act) THEN act[2] ELSE lc, lc)
  IN IF IsOk(r) /\ r[2][1] # "str" THEN Raise("TypeError") ELSE r

\* the transformations given to map()
Funcs == {"clear", "exclaim", "strip"}
ApplyF(f, v) ==
  CASE f = "clear" -> Ok(PyStr(<<>>))
    [] f = "exclaim" -> IF v[1] = "str" THEN Ok(PyStr(v[2] \o <<"!">>)) ELSE Raise("TypeError")
    [] f = "strip" -> IF v[1] = "str" THEN Ok(PyStr(Strip(v[2]))) ELSE Raise("AttributeError")

\* map transforming the filled translations only
map_filled_only(d, f) ==
  IF d[1] # "dict" THEN Raise("AttributeError")
  ELSE Ok(PyDict([i \in 1..Len(d[2]) |->
                    IF Truthy(d[2][i][2]) /\ IsOk(ApplyF(f, d[2][i][2]))
                    THEN <<d[2][i][1], ApplyF(f, d[2][i][2])[2]>>
                    ELSE d[2][i]]))

\* LazyI18nString.map(f): Ok(new self.data), or the exception (self.data is
\* then left as it was)
map(d, f) ==
  IF d[1] # "dict" THEN Raise("AttributeError")
  ELSE IF \E i \in 1..Len(d[2]) : ~IsOk(ApplyF(f, d[2][i][2]))
  THEN ApplyF(f, d[2][CHOOSE i \in 1..Len(d[2]) :
                        /\ ~IsOk(ApplyF(f, d[2][i][2]))
                        /\ \A j \in 1..(i - 1) : IsOk(ApplyF(f, d[2][j][2]))][2])
  ELSE Ok(PyDict([i \in 1..Len(d[2]) |-> <<d[2][i][1], ApplyF(f, d[2][i][2])[2]>>]))

(* ------------------------------------------------------------------ *)
(* django.utils.translation as strings.py uses it                       *)
(* ------------------------------------------------------------------ *)
EN == <<"e", "n">>
DE == <<"d", "e">>
DE_AT == <<"d", "e", "-", "A", "T">>
DE_CH == <<"d", "e", "-", "C", "H">>
FR == <<"f", "r">>
HELLO == <<"H", "e", "l", "l", "o">>
HALLO == <<"H", "a", "l", "l", "o">>

\* the messages handed to from_gettext
Msgs == {HELLO, <<>>}

\* gettext(msg) while lang is active: the catalogue translates HELLO for
\* "de" and its regions; a message without a translation is its own text
gettext(msg, lang) ==
  IF msg = HELLO /\ Truthy(lang) /\ FirstPart(lang[2]) = DE THEN HALLO ELSE msg

\* the lookup activating item and the saved language in turn, with nothing
\* that runs when the rendering raises
ProxyGetItem_no_finally(msg, item, act, fails) ==
  IF fails THEN <<Raise("LookupError"), PyStr(item)>>
  ELSE <<Ok(PyStr(gettext(msg, PyStr(item)))), act>>

\* "with override(item): return str(gettext(self.lazygettext))": the
\* returned pair is <<result, active language after the block>>.  override
\* saves get_language(), activates item, and on leaving the block, normally
\* or by an exception, activates the saved language again (deactivate_all()
\* when it was None).
ProxyGetItem(msg, item, act, fails) ==
  LET old_language == act
      during == PyStr(item)
      result == IF fails THEN Raise("LookupError") ELSE Ok(PyStr(gettext(msg, during)))
  IN <<result, old_language>>

\* LazyGettextProxy.__str__
ProxyStr(msg, act) == Ok(PyStr(gettext(msg, act)))

(* ------------------------------------------------------------------ *)
(* fields.py: I18nField.get_prep_value                                  *)
(* ------------------------------------------------------------------ *)
\* the codes of settings.LANGUAGES
LANGUAGES == <<EN, DE, DE_AT>>

\* {k: v for k, v in value.items() if v}
NonEmptyItems(items) == SelectSeq(items, LAMBDA kv : Truthy(kv[2]))

\* {lng: value[lng] for lng, lngname in settings.LANGUAGES if value[lng]}
ProxyItems(msg, act) ==
  NonEmptyItems([i \in 1..Len(LANGUAGES) |->
                   <<PyStr(LANGUAGES[i]), ProxyGetItem(msg, LANGUAGES[i], act, FALSE)[1][2]>>])

\* get_prep_value keeping the empty translations
get_prep_value_keep_empty(d, act, fails) ==
  IF d[1] = "dict" THEN json_dumps(d[2])
  ELSE IF fails THEN ProxyGetItem(d[2], LANGUAGES[1], act, TRUE)[1]
  ELSE json_dumps(ProxyItems(d[2], act))

\* get_prep_value(value) for a LazyI18nString whose data is d; fails says
\* whether rendering a deferred source raises
get_prep_value(d, act, fails) ==
  IF d[1] = "dict" THEN json_dumps(NonEmptyItems(d[2]))
  ELSE IF fails THEN ProxyGetItem(d[2], LANGUAGES[1], act, TRUE)[1]
  ELSE json_dumps(ProxyItems(d[2], act))

(* ------------------------------------------------------------------ *)
(* forms.py: I18nWidget.decompress, I18nFormField.clean                 *)
(* ------------------------------------------------------------------ *)
\* membership in a Python list
InList(x, xs) == \E i \in 1..Len(xs) : xs[i] = x

\* dataline of decompress for locale lng
DataLine(d, lng, act) ==
  IF d[1] = "dict"
  THEN IF HasKey(d[2], PyStr(lng)) THEN Get(d[2], PyStr(lng)) ELSE PyNone
  ELSE ProxyGetItem(d[2], lng, act, FALSE)[1][2]

\* first_enabled after the loop has visited the 0-based indices i..len-1;
\* None is -1.  "if not first_enabled" is true of None and of index 0.
RECURSIVE FirstEnabledLoop(_, _, _, _)
FirstEnabledLoop(locales, enabled, i, first_enabled) ==
  IF i >= Len(locales) THEN first_enabled
  ELSE FirstEnabledLoop(locales, enabled, i + 1,
         IF InList(locales[i + 1], enabled) /\ first_enabled \in {-1, 0}
         THEN i ELSE first_enabled)

\* I18nWidget.decompress(value) for a LazyI18nString whose data is d
decompress(locales, enabled, d, act, lc) ==
  LET data0 == [i \in 1..Len(locales) |-> DataLine(d, locales[i], act)]
      first_enabled == FirstEnabledLoop(locales, enabled, 0, -1)
      any_enabled_filled ==
        \E i \in 1..Len(locales) : InList(locales[i], enabled) /\ Truthy(data0[i])
      fallback == localize(d, enabled[1], lc)
      put(v) == IF first_enabled = -1 THEN Raise("TypeError")
                ELSE Ok(PyList([data0 EXCEPT ![first_enabled + 1] = v]))
  IN IF Bool(d) /\ d[1] \notin {"dict", "proxy"} THEN put(d)
     ELSE IF Bool(d) /\ ~any_enabled_filled
     THEN IF enabled = <<>> THEN Raise("IndexError")
          ELSE IF ~IsOk(fallback) THEN fallback
          ELSE put(fallback[2])
     ELSE Ok(PyList(data0))

\* Field.empty_values
IsEmptyValue(v) == v \in {PyNone, PyStr(<<>>), PyList(<<>>), PyDict(<<>>)}

\* the i-th sub-value of what the widget submitted (None past its end)
SubValue(value, i) == IF i <= Len(value) THEN value[i] ELSE PyNone

\* CharField(required=False, max_length=...).clean(v): to_python strips, an
\* empty result skips the validators; max_length is <<set, n>>
FieldClean(v, max_length) ==
  LET s == IF IsEmptyValue(v) THEN <<>> ELSE Strip(v[2])
  IN IF s # <<>> /\ max_length[1] /\ Len(s) > max_length[2]
     THEN Raise("max_length")
     ELSE Ok(PyStr(s))

\* I18nFormField.compress(data_list)
RECURSIVE compress(_, _, _)
compress(locales, data_list, acc) ==
  IF data_list = <<>> THEN LazyI18nString(PyDict(acc))
  ELSE compress(Tail(locales), Tail(data_list),
                SetItem(acc, PyStr(Head(locales)), Head(data_list)))

\* clean asking a required field for every enabled translation
clean_require_every(w, value) ==
  LET n == Len(w.locales)
      found_all == ~\E i \in 1..n : /\ IsEmptyValue(SubValue(value, i))
                                     /\ InList(w.locales[i], w.enabled_locales)
      cleaned == [i \in 1..n |-> FieldClean(SubValue(value, i), w.max_length)]
      errors == \E i \in 1..n : ~IsOk(cleaned[i])
  IN IF errors THEN Raise("max_length")
     ELSE IF w.one_required /\ ~found_all THEN Raise("required")
     ELSE IF w.require_all_fields /\ ~found_all THEN Raise("incomplete")
     ELSE compress(w.locales, [i \in 1..n |-> cleaned[i][2]], <<>>)

\* I18nFormField.clean(value) for a list value; w is the field:
\* locales, enabled_locales (of its widget), one_required,
\* require_all_fields, max_length
clean(w, value) ==
  LET n == Len(w.locales)
      found == \E i \in 1..n : ~IsEmptyValue(SubValue(value, i))
      found_all == ~\E i \in 1..n : /\ IsEmptyValue(SubValue(value, i))
                                     /\ InList(w.locales[i], w.enabled_locales)
      cleaned == [i \in 1..n |-> FieldClean(SubValue(value, i), w.max_length)]
      errors == \E i \in 1..n : ~IsOk(cleaned[i])
  IN IF errors THEN Raise("max_length")
     ELSE IF w.one_required /\ ~found THEN Raise("required")
     ELSE IF w.require_all_fields /\ ~found_all THEN Raise("incomplete")
     ELSE compress(w.locales, [i \in 1..n |-> cleaned[i][2]], <<>>)

(* ------------------------------------------------------------------ *)
(* State                                                                *)
(* ------------------------------------------------------------------ *)
VARIABLES
  data,           \* self.data of the LazyI18nString at hand
  active,         \* what translation.get_language() returns
  LANGUAGE_CODE,  \* settings.LANGUAGE_CODE
  widget,         \* the I18nFormField and its widget: locales, enabled_locales,
                  \* one_required, require_all_fields, max_length
  last,           \* the last call: op, arg, ret, and data and active before it
  origin,         \* how the instance was built: by which constructor, its
                  \* arg, and self.data as the constructor left it
  applied         \* the transformations map() has applied since, in order

vars == <<data, active, LANGUAGE_CODE, widget, last, origin, applied>>

(* ------------------------------------------------------------------ *)
(* Inputs                                                               *)
(* ------------------------------------------------------------------ *)
DE_LU == <<"d", "e", "-", "L", "U">>
HI == <<"H", "i">>
SP_QUOTE == <<" ", "\"">>

KeyInputs == {DE, DE_AT, DE_CH, EN}
ValInputs == {<<>>, HI, SP_QUOTE}

\* the mappings of exactly n distinct keys, in every insertion order
RECURSIVE DictsOfLen(_)
DictsOfLen(n) ==
  IF n = 0 THEN {<<>>}
  ELSE {Append(d, <<PyStr(k), PyStr(v)>>) :
          d \in DictsOfLen(n - 1),
          k \in KeyInputs,
          v \in ValInputs} \ {<<>>}

DictInputs ==
  {d \in UNION {DictsOfLen(n) : n \in 0..MaxKeys} :
     \A i, j \in 1..Len(d) : i # j => d[i][1] # d[j][1]}

\* the strings given to the constructor
StrInputs ==
  { HELLO,
    <<>>,
    <<"{">>,
    <<"d", "e", "-", "A", "T">>,
    <<"1", "2">>,
    Lit_null,
    Lit_true,
    <<"\"", "\"">>,
    <<"\"", "a", "b", "\"">>,
    <<"[", "]">>,
    <<"[", "1", "]">>,
    <<"[", "\"", "d", "e", "\"", "]">>,
    <<"{", "\"", "d", "e", "\"", ":", " ", "1", "}">>,
    <<"{", "\"", "d", "e", "\"", ":", " ", "\"", "H", "i", "\"", ",", " ",
      "\"", "e", "n", "\"", ":", " ", "\"", "\"", "}">> }

NAIVE_X == NAIVE \o <<"-", "x">>
LocaleInputs == {DE, DE_AT, DE_LU, EN, FR, NAIVE, NAIVE_X}
ActiveInputs == {DE}

\* the subsequences of a list
RECURSIVE SubLists(_)
SubLists(xs) ==
  IF xs = <<>> THEN {<<>>}
  ELSE SubLists(Tail(xs)) \cup {<<Head(xs)>> \o ys : ys \in SubLists(Tail(xs))}

LocalesInputs == {LANGUAGES, <<DE_CH, EN>>}

WidgetInputs ==
  {[locales |-> ls, enabled_locales |-> es, one_required |-> req,
    require_all_fields |-> all, max_length |-> ml] :
     ls \in LocalesInputs, es \in UNION {SubLists(l) : l \in LocalesInputs},
     req \in BOOLEAN, all \in BOOLEAN, ml \in {<<FALSE, 0>>, <<TRUE, 2>>}}

\* what the widget submits for one locale
SubInputs == {PyNone, PyStr(<<>>), PyStr(<<" ">>), PyStr(HI), PyStr(HELLO)}

\* the submitted lists for n sub-widgets, the shorter ones included
ValueInputs(n) == UNION {[1..m -> SubInputs] : m \in 0..n}

DefaultWidget ==
  [locales |-> LANGUAGES, enabled_locales |-> LANGUAGES, one_required |-> TRUE,
   require_all_fields |-> FALSE, max_length |-> <<FALSE, 0>>]

Call(op, arg, ret) ==
  [op |-> op, arg |-> arg, ret |-> ret, data0 |-> data, active0 |-> active]

(* ------------------------------------------------------------------ *)
(* Initial state: a fresh thread, no instance built yet (data is the     *)
(* empty mapping of LazyI18nString(None))                               *)
(* ------------------------------------------------------------------ *)
Start ==
  /\ LANGUAGE_CODE \in {EN, DE_AT}
  /\ active = PyStr(LANGUAGE_CODE)
  /\ data = PyDict(<<>>)
  /\ last = [op |-> "start", arg |-> PyNone, ret |-> Ok(PyDict(<<>>)),
             data0 |-> PyDict(<<>>), active0 |-> PyStr(LANGUAGE_CODE)]
  /\ origin = [by |-> "init", arg |-> PyNone, data |-> PyDict(<<>>)]
  /\ applied = <<>>

\* no form field is in play
Init == Start /\ widget = DefaultWidget

\* a form field, I18nFormField(locales=..., required=..., require_all_fields=...,
\* max_length=...), whose widget's enabled_locales the form has assigned
FormInit == Start /\ LANGUAGE_CODE = EN /\ widget \in WidgetInputs

(* ------------------------------------------------------------------ *)
(* Operations                                                           *)
(* ------------------------------------------------------------------ *)
\* x = LazyI18nString(arg); when the constructor raises there is no new
\* instance.  The model follows one instance: it is built once, at the start.
Constructed(op, arg, r) ==
  /\ last' = Call(op, arg, r)
  /\ data' = IF IsOk(r) THEN r[2] ELSE data
  /\ origin' = IF IsOk(r) THEN [by |-> "init", arg |-> arg, data |-> r[2]] ELSE origin
  /\ applied' = IF IsOk(r) THEN <<>> ELSE applied
  /\ UNCHANGED <<active, LANGUAGE_CODE, widget>>

Construct(op, arg) == Constructed(op, arg, LazyI18nString(arg))

NewFromStr == last.op = "start" /\ \E s \in StrInputs : Construct("new", PyStr(s))
NewFromDict == last.op = "start" /\ \E d \in DictInputs : Construct("new", PyDict(d))
NewFromNone == last.op = "start" /\ Construct("new", PyNone)

\* LazyI18nString.from_gettext(msg)
FromGettext ==
  \E msg \in Msgs :
    /\ last.op = "start"
    /\ data' = Proxy(msg)
    /\ last' = Call("from_gettext", PyStr(msg), Ok(Proxy(msg)))
    /\ origin' = [by |-> "from_gettext", arg |-> PyStr(msg), data |-> Proxy(msg)]
    /\ applied' = <<>>
    /\ UNCHANGED <<active, LANGUAGE_CODE, widget>>

\* x.localize(lng)
Localize ==
  \E lng \in LocaleInputs :
    /\ last' = Call("localize", PyStr(lng), localize(data, lng, LANGUAGE_CODE))
    /\ UNCHANGED <<data, active, LANGUAGE_CODE, widget, origin, applied>>

\* str(x)
StrCall ==
  /\ last' = Call("str", PyNone, Str(data, active, LANGUAGE_CODE))
  /\ UNCHANGED <<data, active, LANGUAGE_CODE, widget, origin, applied>>

\* bool(x)
BoolCall ==
  /\ last' = Call("bool", PyNone, Ok(PyBool(Bool(data))))
  /\ UNCHANGED <<data, active, LANGUAGE_CODE, widget, origin, applied>>

\* x.map(f), at most MaxMaps times on one instance
Mapped(f, r) ==
  /\ Len(applied) < MaxMaps
  /\ last' = Call("map", PyStr(<<f>>), IF IsOk(r) THEN Ok(PyNone) ELSE r)
  /\ data' = IF IsOk(r) THEN r[2] ELSE data
  /\ applied' = IF IsOk(r) THEN Append(applied, f) ELSE applied
  /\ UNCHANGED <<active, LANGUAGE_CODE, widget, origin>>

MapCall == \E f \in Funcs : Mapped(f, map(data, f))

\* I18nField.get_prep_value(x)
GetPrepValue ==
  \E fails \in BOOLEAN :
    /\ fails => data[1] = "proxy"
    /\ last' = Call("get_prep_value", PyNone, get_prep_value(data, active, fails))
    /\ UNCHANGED <<data, active, LANGUAGE_CODE, widget, origin, applied>>

\* LazyI18nString(s) for the string s that get_prep_value has just returned
Reload ==
  /\ last.op = "get_prep_value"
  /\ IsOk(last.ret)
  /\ Construct("reload", last.ret[2])

\* x.data[item] on a deferred source
GotItem(item, r) ==
  /\ last' = Call("getitem", PyStr(item), r[1])
  /\ active' = r[2]
  /\ UNCHANGED <<data, LANGUAGE_CODE, widget, origin, applied>>

GetItem ==
  \E item \in LocaleInputs, fails \in BOOLEAN :
    /\ data[1] = "proxy"
    /\ GotItem(item, ProxyGetItem(data[2], item, active, fails))

\* translation.activate(lng), translation.deactivate(),
\* translation.deactivate_all() by the surrounding request
Activate ==
  \E lng \in ActiveInputs :
    /\ active' = PyStr(lng)
    /\ last' = Call("activate", PyStr(lng), Ok(PyNone))
    /\ UNCHANGED <<data, LANGUAGE_CODE, widget, origin, applied>>

Deactivate ==
  /\ active' = PyStr(LANGUAGE_CODE)
  /\ last' = Call("deactivate", PyNone, Ok(PyNone))
  /\ UNCHANGED <<data, LANGUAGE_CODE, widget, origin, applied>>

DeactivateAll ==
  /\ active' = PyNone
  /\ last' = Call("deactivate_all", PyNone, Ok(PyNone))
  /\ UNCHANGED <<data, LANGUAGE_CODE, widget, origin, applied>>

\* The instance is constructed, resolved, tested, serialized and re-read.
Next ==
  \/ NewFromStr
  \/ NewFromDict
  \/ NewFromNone
  \/ FromGettext
  \/ Localize
  \/ StrCall
  \/ BoolCall
  \/ GetPrepValue
  \/ Reload
  \/ GetItem
  \/ Activate
  \/ Deactivate
  \/ DeactivateAll

Spec == Init /\ [][Next]_vars

\* The instance is constructed and transformed in place any number of times.
MapNext ==
  \/ NewFromStr
  \/ NewFromDict
  \/ FromGettext
  \/ MapCall

MapSpec == Init /\ [][MapNext]_vars

\* I18nFormField.clean(value) on a submitted list; the cleaned instance
\* is the instance at hand from then on
Cleaned(value, r) ==
  /\ last' = Call("clean", PyList(value), r)
  /\ data' = IF IsOk(r) THEN r[2] ELSE data
  /\ origin' = IF IsOk(r) THEN [by |-> "clean", arg |-> PyList(value), data |-> r[2]] ELSE origin
  /\ UNCHANGED <<active, LANGUAGE_CODE, widget, applied>>

Clean ==
  /\ last.op = "start"
  /\ \E value \in ValueInputs(Len(widget.locales)) : Cleaned(value, clean(widget, value))

\* I18nWidget.decompress(x)
Decompress ==
  /\ last' = Call("decompress", PyNone,
                  decompress(widget.locales, widget.enabled_locales, data, active,
                             LANGUAGE_CODE))
  /\ UNCHANGED <<data, active, LANGUAGE_CODE, widget, origin, applied>>

\* An instance is built, or cleaned from a submission, and decompressed for
\* display.
FormNext ==
  \/ NewFromStr
  \/ NewFromDict
  \/ FromGettext
  \/ Clean
  \/ Decompress

FormSpec == FormInit /\ [][FormNext]_vars

(* ------------------------------------------------------------------ *)
(* Properties                                                           *)
(* ------------------------------------------------------------------ *)
\* a mapping whose keys and values are all strings
AllStr(d) ==
  /\ d[1] = "dict"
  /\ \A i \in 1..Len(d[2]) : d[2][i][1][1] = "str" /\ d[2][i][2][1] = "str"

\* the text at key k of a string mapping, empty when k is absent
TextAt(items, k) ==
  IF \E i \in 1..Len(items) : items[i][1][2] = k
  THEN items[CHOOSE i \in 1..Len(items) : items[i][1][2] = k][2][2]
  ELSE <<>>

\* the part of locale L before its first "-"
BaseOf(L) ==
  SubSeq(L, 1, CHOOSE n \in 0..Len(L) :
                 /\ \A j \in 1..n : L[j] # "-"
                 /\ n = Len(L) \/ L[n + 1] = "-")

\* the entries that are region siblings of L: keys other than L and "_naive"
\* that equal the base or start with base + "-", in insertion order
Siblings(items, L) ==
  SelectSeq(items, LAMBDA kv :
    /\ kv[1][2] # L
    /\ kv[1][2] # NAIVE
    /\ kv[1][2] = BaseOf(L) \/ startswith(kv[1][2], BaseOf(L) \o <<"-">>))

\* the candidates of resolution in their strict order (a) .. (e)
Candidates(items, L, lc) ==
  <<TextAt(items, L), TextAt(items, BaseOf(L))>>
    \o [i \in 1..Len(Siblings(items, L)) |-> Siblings(items, L)[i][2][2]]
    \o <<TextAt(items, lc)>>
    \o [i \in 1..Len(items) |-> items[i][2][2]]

\* the first non-empty text of a sequence, empty when there is none
FirstFilled(texts) ==
  IF \E i \in 1..Len(texts) : texts[i] # <<>>
  THEN texts[CHOOSE i \in 1..Len(texts) :
               texts[i] # <<>> /\ \A j \in 1..(i - 1) : texts[j] = <<>>]
  ELSE <<>>

\* C1: on a mapping of strings, localize(L) returns the first non-empty of:
\* the value at L, the value at L's base, the region siblings in insertion
\* order, the value at the default locale, every value in insertion order;
\* and the empty string when none is filled.
C1_LocalizeOrder ==
  (last.op = "localize" /\ AllStr(data)) =>
     last.ret = Ok(PyStr(FirstFilled(Candidates(data[2], last.arg[2], LANGUAGE_CODE))))

\* localize has passed over region siblings that are all empty, and over an
\* empty exact and base match, to return a later filled value
C1_Witness ==
  /\ last.op = "localize"
  /\ AllStr(data)
  /\ Siblings(data[2], last.arg[2]) # <<>>
  /\ \A i \in 1..Len(Siblings(data[2], last.arg[2])) :
        Siblings(data[2], last.arg[2])[i][2][2] = <<>>
  /\ TextAt(data[2], last.arg[2]) = <<>>
  /\ TextAt(data[2], BaseOf(last.arg[2])) = <<>>
  /\ last.ret = Ok(PyStr(HI))

\* C2: the constructor given a string never raises; a string that parses as
\* a JSON object yields the parsed mapping, every other string s yields
\* {"_naive": s}.
C2_StringConstruction ==
  (last.op = "new" /\ last.arg[1] = "str") =>
     /\ IsOk(last.ret)
     /\ IF IsOk(json_loads(last.arg[2])) /\ json_loads(last.arg[2])[2][1] = "dict"
        THEN data = json_loads(last.arg[2])[2]
        ELSE data = PyDict(<< <<PyStr(NAIVE), last.arg>> >>)

\* C3: localize and str never raise and never return None, on instances
\* built from None, a string, a mapping or from_gettext; str of a deferred
\* instance renders its source under the active locale.
C3_ResolutionTotal ==
  (last.op \in {"localize", "str"}) =>
     /\ IsOk(last.ret)
     /\ last.ret[2] # PyNone
     /\ (last.op = "str" /\ data[1] = "proxy") => last.ret = ProxyStr(data[2], active)

\* the keys of a string mapping, each strictly below the next
KeysAscending(items) ==
  \A i \in 1..(Len(items) - 1) : StrLess(items[i][1][2], items[i + 1][1][2])

\* the entries of a mapping as a set
ItemSet(items) == {items[i] : i \in 1..Len(items)}

\* C4: get_prep_value of a mapping of strings is a JSON object of exactly
\* its non-empty entries, keys in lexicographic order, and the instance
\* built from that text holds exactly those entries.
C4_RoundTrip ==
  (last.op = "reload" /\ AllStr(last.data0)) =>
     /\ IsOk(last.ret)
     /\ Head(last.arg[2]) = "{"
     /\ last.arg[2][Len(last.arg[2])] = "}"
     /\ AllStr(data)
     /\ KeysAscending(data[2])
     /\ ItemSet(data[2]) = {kv \in ItemSet(last.data0[2]) : kv[2][2] # <<>>}

\* a mapping with an empty entry, a filled entry holding a quote, and keys
\* inserted out of order has been serialized and read back
C4_Witness ==
  /\ last.op = "reload"
  /\ AllStr(last.data0)
  /\ Len(last.data0[2]) >= 2
  /\ ~KeysAscending(last.data0[2])
  /\ \E i \in 1..Len(last.data0[2]) : last.data0[2][i][2][2] = <<>>
  /\ \E i \in 1..Len(data[2]) : data[2][i][2][2] = SP_QUOTE

\* C5: bool(x) is False exactly when the content is empty or, for a mapping
\* of strings, every value is empty; a deferred instance is always True; a
\* mapping of strings is True exactly when localize returns a non-empty
\* string for some locale, and then it does for every locale.
C5_Truthiness ==
  (last.op = "bool") =>
     /\ data[1] = "proxy" => last.ret = Ok(PyTrue)
     /\ AllStr(data) =>
          /\ (last.ret = Ok(PyFalse)) <=> (\A i \in 1..Len(data[2]) : data[2][i][2][2] = <<>>)
          /\ (last.ret = Ok(PyTrue)) <=>
               (\E L \in LocaleInputs : localize(data, L, LANGUAGE_CODE)[2][2] # <<>>)
          /\ (last.ret = Ok(PyTrue)) <=>
               (\A L \in LocaleInputs : localize(data, L, LANGUAGE_CODE)[2][2] # <<>>)

\* bool() of a mapping that has keys but only empty values
C5_Witness ==
  /\ last.op = "bool"
  /\ AllStr(data)
  /\ Len(data[2]) >= 2
  /\ last.ret = Ok(PyFalse)

\* C6: a lookup by locale code on the deferred source leaves the active
\* locale as it was before the lookup, whether the rendering returns or
\* raises.
C6_OverrideRestored ==
  (last.op = "getitem") => active = last.active0

\* the rendering raised under a locale other than the active one
C6_Witness ==
  /\ last.op = "getitem"
  /\ ~IsOk(last.ret)
  /\ last.arg # last.active0

\* the plain strings, none of them JSON
PlainStrings == {HELLO, <<>>, <<"{">>, DE_AT}

\* C7: an instance built from a plain string s resolves to s for every
\* locale and every default locale (the empty string when s is empty).
C7_NaiveFallback ==
  (last.op = "localize" /\ origin.by = "init" /\ origin.arg[1] = "str"
     /\ origin.arg[2] \in PlainStrings /\ applied = <<>>) =>
     last.ret = Ok(origin.arg)

\* "Hello" resolved for a region locale
C7_Witness ==
  /\ last.op = "localize"
  /\ origin.by = "init"
  /\ origin.arg = PyStr(HELLO)
  /\ last.arg = PyStr(DE_AT)
  /\ last.ret = Ok(PyStr(HELLO))

\* f1, f2, ... applied in turn to a value
RECURSIVE ApplyAll(_, _)
ApplyAll(fs, v) == IF fs = <<>> THEN v ELSE ApplyAll(Tail(fs), ApplyF(Head(fs), v)[2])

\* C8: after any sequence of map calls on a mapping, the keys and their
\* order are those the instance was built with and every value is the
\* transformations applied in turn to the value it was built with.
C8_MapFrame ==
  AllStr(origin.data) =>
     /\ data[1] = "dict"
     /\ Keys(data[2]) = Keys(origin.data[2])
     /\ \A i \in 1..Len(data[2]) : data[2][i][2] = ApplyAll(applied, origin.data[2][i][2])

\* two map calls have changed a mapping of two keys, one of them empty
C8_Witness ==
  /\ last.op = "map"
  /\ applied = <<"exclaim", "strip">>
  /\ Len(data[2]) = 2
  /\ \E i \in 1..2 : origin.data[2][i][2] = PyStr(<<>>) /\ data[2][i][2] = PyStr(<<"!">>)
  /\ \E i \in 1..2 : origin.data[2][i][2] = PyStr(SP_QUOTE) /\ data[2][i][2] = PyStr(<<"\"", "!">>)

\* the i-th sub-value of the submitted list is filled
Filled(value, i) == i <= Len(value) /\ value[i] \notin {PyNone, PyStr(<<>>)}

\* some translation of the submitted list is filled
AnyFilled(value) == \E i \in 1..Len(widget.locales) : Filled(value, i)

\* an enabled locale's sub-value is empty
EnabledEmpty(value) ==
  \E i \in 1..Len(widget.locales) :
     ~Filled(value, i) /\ InList(widget.locales[i], widget.enabled_locales)

\* the i-th sub-value as its CharField cleans it: stripped, "" for None
CleanedText(value, i) == IF Filled(value, i) THEN Strip(value[i][2]) ELSE <<>>

\* a sub-value its CharField rejects: longer than max_length once stripped
SubFieldError(value) ==
  \E i \in 1..Len(widget.locales) :
     widget.max_length[1] /\ Len(CleanedText(value, i)) > widget.max_length[2]

\* the result of clean maps locales[i] to the cleaned i-th sub-value
MapsLocalesToCleaned(value) ==
  /\ IsOk(last.ret)
  /\ Keys(last.ret[2][2]) = [i \in 1..Len(widget.locales) |-> PyStr(widget.locales[i])]
  /\ \A i \in 1..Len(widget.locales) : last.ret[2][2][i][2] = PyStr(CleanedText(value, i))

\* C9 as stated: on a required field, clean accepts a list with at least
\* one filled translation (unless require_all_fields is set), raises
\* 'required' exactly when none is filled, with require_all_fields raises
\* 'incomplete' exactly when an enabled locale is empty while one is filled,
\* and on success maps locales[i] to the cleaned i-th sub-value.
C9_AsStated ==
  (last.op = "clean" /\ widget.one_required) =>
     /\ (AnyFilled(last.arg[2]) /\ ~widget.require_all_fields) => IsOk(last.ret)
     /\ Raised(last.ret, "required") <=> ~AnyFilled(last.arg[2])
     /\ widget.require_all_fields =>
          (Raised(last.ret, "incomplete") <=>
             (EnabledEmpty(last.arg[2]) /\ AnyFilled(last.arg[2])))
     /\ IsOk(last.ret) => MapsLocalesToCleaned(last.arg[2])

\* C9 amended: the same, for a list none of whose sub-values its sub-field
\* rejects; a list with a rejected sub-value raises the collected sub-field
\* errors, and neither 'required' nor 'incomplete'.
C9_Amended ==
  (last.op = "clean" /\ widget.one_required) =>
     /\ Raised(last.ret, "required") <=> ~AnyFilled(last.arg[2])
     /\ IsOk(last.ret) => MapsLocalesToCleaned(last.arg[2])
     /\ SubFieldError(last.arg[2]) => Raised(last.ret, "max_length")
     /\ ~SubFieldError(last.arg[2]) =>
          /\ (AnyFilled(last.arg[2]) /\ ~widget.require_all_fields) => IsOk(last.ret)
          /\ widget.require_all_fields =>
               (Raised(last.ret, "incomplete") <=>
                  (EnabledEmpty(last.arg[2]) /\ AnyFilled(last.arg[2])))

\* a required field was accepted with one translation filled and an enabled
\* one left empty
C9_Witness ==
  /\ last.op = "clean"
  /\ widget.one_required
  /\ ~widget.require_all_fields
  /\ IsOk(last.ret)
  /\ EnabledEmpty(last.arg[2])
  /\ \E i \in 1..Len(widget.locales) : last.ret[2][2][i][2] = PyStr(HI)

\* the lowest index i (from 1) with locales[i] in enabled_locales
LowestEnabled ==
  CHOOSE i \in 1..Len(widget.locales) :
     /\ InList(widget.locales[i], widget.enabled_locales)
     /\ \A j \in 1..(i - 1) : ~InList(widget.locales[j], widget.enabled_locales)

\* the stored value for locale lng of a string mapping, None when absent
Stored(items, lng) ==
  IF \E i \in 1..Len(items) : items[i][1][2] = lng
  THEN PyStr(TextAt(items, lng))
  ELSE PyNone

\* the value is truthy and no enabled locale has a non-empty stored value
NeedsFallback ==
  /\ \E i \in 1..Len(data[2]) : data[2][i][2][2] # <<>>
  /\ \A i \in 1..Len(widget.locales) :
        InList(widget.locales[i], widget.enabled_locales) =>
           TextAt(data[2], widget.locales[i]) = <<>>

\* C10: decompress returns one entry per configured locale, the stored
\* value for that locale (None when absent), except that the fallback text
\* localize(enabled_locales[0]) is written into the slot of the lowest
\* enabled index when the value is truthy and no enabled locale is filled.
C10_DecompressSlots ==
  (last.op = "decompress" /\ AllStr(data)
     /\ \E i \in 1..Len(widget.locales) : InList(widget.locales[i], widget.enabled_locales)) =>
     /\ IsOk(last.ret)
     /\ Len(last.ret[2][2]) = Len(widget.locales)
     /\ \A i \in 1..Len(widget.locales) :
          last.ret[2][2][i] =
            IF NeedsFallback /\ i = LowestEnabled
            THEN PyStr(FirstFilled(Candidates(data[2], widget.enabled_locales[1], LANGUAGE_CODE)))
            ELSE Stored(data[2], widget.locales[i])

====
